---- MODULE Spec2Model ----
(***************************************************************************)
(* A model of the in-memory metrics store of src/app/main.py:              *)
(* MetricsStore.track / snapshot / series called by concurrent worker      *)
(* threads that share one store (STORE) and its Lock.                      *)
(*                                                                         *)
(* Representation                                                          *)
(*   - Optional values (float | None, str | None) are sequences: <<>> is   *)
(*     None and <<x>> is the value x.                                      *)
(*   - Floats are integers; math.inf, -math.inf and NaN are the numbers    *)
(*     Inf, NegInf and NaN, handled by FLt / FAdd as IEEE-754 does.        *)
(*   - A quotient (avg) is the exact rational <<num, den>> in lowest terms.*)
(*   - A defaultdict is a function whose DOMAIN is the set of keys it      *)
(*     holds; reading a missing key inserts the default (Touch).  The two  *)
(*     dicts the code iterates over also carry their insertion order.      *)
(*   - The wall clock is a counter that never goes back; it goes on        *)
(*     between two reads of time.time() and stands at MaxTime.             *)
(*   - A thread's steps are the points where other threads can see or      *)
(*     change what it does: the clock read before the lock, the entry      *)
(*     into the lock, the load and the store of the count, the rest of     *)
(*     the body up to the release.                                         *)
(*                                                                         *)
(*   - A string that the code strips (the event of a request) is a         *)
(*     sequence of characters, each its Unicode code point.                *)
(*                                                                         *)
(* Spec has NumThreads threads share the store and track two keys;         *)
(* SpecSeq has one thread track every key with every value; SpecAging lets *)
(* the clock go on after series has read it; SpecInf tracks inf and -inf;  *)
(* SpecFair schedules the threads fairly; SpecHttp has the threads handle  *)
(* POST /track requests, which also update the Prometheus metrics.         *)
(***************************************************************************)
EXTENDS Integers, Sequences, FiniteSets, TLC

\* ------------------------------------------------------------------ bounds
NumThreads == 2
MaxTracks == 3
MaxTime == 3
\* constructor arguments of MetricsStore (defaults 300 and 500 in the code)
SeriesWindow == 1
SeriesMax == 2

\* ------------------------------------------------------------- float values
Inf == 1000
NegInf == -1000
NaN == 2000

None == <<>>

Some(x) == <<x>>

Threads == 1..NumThreads

\* the (event, service, status) arguments the callers pass to track: two that
\* name one key, and keys that differ in the service, the status or the event
TrackArgs ==
  { <<"a", None, None>>, <<"a", Some(""), None>>, <<"a", Some("s"), None>>,
    <<"a", None, Some("ok")>>, <<"b", None, None>> }

\* the arguments of the concurrent callers: two keys of one event
SharedArgs == { <<"a", None, None>>, <<"a", Some("s"), None>> }

\* the value arguments the callers pass to track
Values == {None, Some(1), Some(2)}

\* the value arguments of the concurrent callers
SharedValues == {None, Some(1)}

\* str(x) for x : str | None: an absent label becomes the text None
OrEmptyStr(x) == IF x = None THEN "None" ELSE x[1]

\* x or "" for x : str | None
OrEmpty(x) == IF x = None \/ x = Some("") THEN "" ELSE x[1]

MakeKey(event, service, status) == <<event, OrEmpty(service), OrEmpty(status)>>

Keys == { MakeKey(a[1], a[2], a[3]) : a \in TrackArgs }

\* a < b on floats: every comparison with NaN is false
FLt(a, b) == a # NaN /\ b # NaN /\ a < b

\* a + b on floats
FAdd(a, b) ==
  IF a = NaN \/ b = NaN THEN NaN
  ELSE IF (a = Inf /\ b = NegInf) \/ (a = NegInf /\ b = Inf) THEN NaN
  ELSE IF a = Inf \/ b = Inf THEN Inf
  ELSE IF a = NegInf \/ b = NegInf THEN NegInf
  ELSE a + b

Abs(x) == IF x < 0 THEN -x ELSE x

RECURSIVE Gcd(_, _)
Gcd(a, b) == IF b = 0 THEN a ELSE Gcd(b, a % b)

\* s / c for a float s and an int c > 0: the exact quotient in lowest terms
FDiv(s, c) ==
  IF s \in {NaN, Inf, NegInf} THEN <<s, 1>>
  ELSE LET g == Gcd(Abs(s), c) IN <<s \div g, c \div g>>

\* ------------------------------------------------------------ dictionaries
EmptyDict == [x \in {} |-> 0]

\* defaultdict.__getitem__: a missing key is inserted with the default
Touch(d, k, default) == IF k \in DOMAIN d THEN d ELSE d @@ (k :> default)

\* the value defaultdict.__getitem__ returns
Get(d, k, default) == Touch(d, k, default)[k]

\* every dict a defaultdict(float): a key that is read is inserted with 0
TouchAllZero(d, S, default) ==
  [k \in DOMAIN d \cup S |-> IF k \in DOMAIN d THEN d[k] ELSE 0]

\* a defaultdict after each key of S has been read
TouchAll(d, S, default) ==
  [k \in DOMAIN d \cup S |-> IF k \in DOMAIN d THEN d[k] ELSE default]

\* insertion order of a dict after a key is (possibly) inserted
TouchOrder(order, d, k) == IF k \in DOMAIN d THEN order ELSE Append(order, k)

\* a deque that drops nothing
DequeAppendUnbounded(dq, x, m) == Append(dq, x)

\* deque(maxlen=m).append(x)
DequeAppend(dq, x, m) ==
  IF Len(dq) >= m THEN Append(Tail(dq), x) ELSE Append(dq, x)

VARIABLES
  lock,        \* MetricsStore._lock: 0 when free, else the holding thread
  counts,      \* MetricsStore._counts
  countsKeys,  \* insertion order of _counts
  sum,         \* MetricsStore._sum
  n,           \* MetricsStore._n
  min,         \* MetricsStore._min
  max,         \* MetricsStore._max
  series,      \* MetricsStore._series
  seriesKeys,  \* insertion order of _series
  now,         \* the wall clock time.time() reads
  pc,          \* per thread: where it is in the call it runs
  key,         \* per thread: track's local key
  value,       \* per thread: track's argument value
  ts,          \* per thread: track's local ts
  tmp,         \* per thread: the value an expression has loaded (the count
               \* of +=, the time.time() of series)
  cutoff,      \* per thread: series' local cutoff
  out,         \* per thread: snapshot's local out
  sout,        \* per thread: series' local out
  calls,       \* history: per key, the <<ts, value, arguments>> of the track
               \* calls in the order they entered the lock
  req,         \* per thread: the TrackPayload of the POST /track it handles
  hpc,         \* per thread: where it is in the handler of POST /track
  promCount,   \* EVENT_COUNT: per label values, the value of the counter
  promObs      \* EVENT_LATENCY: per label values, the number of observations

store == <<counts, countsKeys, sum, n, min, max, series, seriesKeys>>

locals == <<key, value, ts, tmp, cutoff, out, sout>>

\* the handler of POST /track and the Prometheus metrics
http == <<req, hpc, promCount, promObs>>

vars == <<lock, store, now, pc, locals, calls, http>>

\* no request in the hands of the thread
NoReq == <<>>

NoKey == <<>>

Init ==
  /\ lock = 0
  /\ counts = EmptyDict
  /\ countsKeys = <<>>
  /\ sum = EmptyDict
  /\ n = EmptyDict
  /\ min = EmptyDict
  /\ max = EmptyDict
  /\ series = EmptyDict
  /\ seriesKeys = <<>>
  /\ now = 0
  /\ pc = [t \in Threads |-> "idle"]
  /\ key = [t \in Threads |-> NoKey]
  /\ value = [t \in Threads |-> None]
  /\ ts = [t \in Threads |-> 0]
  /\ tmp = [t \in Threads |-> 0]
  /\ cutoff = [t \in Threads |-> 0]
  /\ out = [t \in Threads |-> <<>>]
  /\ sout = [t \in Threads |-> EmptyDict]
  /\ calls = [k \in Keys |-> <<>>]
  /\ req = [t \in Threads |-> NoReq]
  /\ hpc = [t \in Threads |-> "none"]
  /\ promCount = EmptyDict
  /\ promObs = EmptyDict

\* number of track calls made so far
TracksMade ==
  LET RECURSIVE Total(_)
      Total(S) == IF S = {} THEN 0
                  ELSE LET k == CHOOSE x \in S : TRUE
                       IN Len(calls[k]) + Total(S \ {k})
  IN Total(Keys) + Cardinality({t \in Threads : pc[t] = "t_lock"})

\* the clock after time.time() has read it: it goes on by d, and stands at
\* MaxTime
Tick(d) == IF now + d <= MaxTime THEN now + d ELSE MaxTime

\* a store whose lock never excludes anyone
LockIgnored == TRUE

\* with self._lock: the lock can be taken when no thread holds it
LockFree == lock = 0

\* --------------------------------------------------------- MetricsStore.track
\* line 35: ts = time.time(), read before the lock is taken.  D: by how much
\* the clock may go on before it is read again.
TrackCall(t, D) ==
  /\ pc[t] = "idle"
  /\ TracksMade < MaxTracks
  /\ ts' = [ts EXCEPT ![t] = now]
  /\ \E d \in D : now' = Tick(d)
  /\ pc' = [pc EXCEPT ![t] = "t_lock"]
  /\ UNCHANGED <<lock, store, key, value, tmp, cutoff, out, sout, calls, http>>

\* lines 33-34 and 36-37: the arguments and key = (event, service or "",
\* status or ""); with self._lock; self._counts[key] += 1 loads
\* self._counts[key].  The arguments are the caller's own until the lock is
\* entered, so they are drawn here: no other thread can tell the difference.
TrackEnter(t, A, V) ==
  /\ pc[t] = "t_lock"
  /\ LockFree
  /\ lock' = t
  /\ \E a \in A, v \in V :
       LET k == MakeKey(a[1], a[2], a[3]) IN
       /\ key' = [key EXCEPT ![t] = k]
       /\ value' = [value EXCEPT ![t] = v]
       /\ calls' = [calls EXCEPT ![k] = Append(@, <<ts[t], v, a>>)]
       /\ counts' = Touch(counts, k, 0)
       /\ countsKeys' = TouchOrder(countsKeys, counts, k)
       /\ tmp' = [tmp EXCEPT ![t] = counts'[k]]
  /\ pc' = [pc EXCEPT ![t] = "t37"]
  /\ UNCHANGED <<sum, n, min, max, series, seriesKeys, now,
                 ts, cutoff, out, sout, http>>

\* a return that leaves the lock held
ReleaseKeepLock(t) ==
  /\ lock' = lock
  /\ pc' = [pc EXCEPT ![t] = "idle"]
  /\ key' = [key EXCEPT ![t] = NoKey]
  /\ value' = [value EXCEPT ![t] = None]
  /\ ts' = [ts EXCEPT ![t] = 0]
  /\ tmp' = [tmp EXCEPT ![t] = 0]
  /\ cutoff' = [cutoff EXCEPT ![t] = 0]
  /\ out' = [out EXCEPT ![t] = <<>>]
  /\ sout' = [sout EXCEPT ![t] = EmptyDict]

\* the end of the with block and the return
Release(t) ==
  /\ lock' = 0
  /\ pc' = [pc EXCEPT ![t] = "idle"]
  /\ key' = [key EXCEPT ![t] = NoKey]
  /\ value' = [value EXCEPT ![t] = None]
  /\ ts' = [ts EXCEPT ![t] = 0]
  /\ tmp' = [tmp EXCEPT ![t] = 0]
  /\ cutoff' = [cutoff EXCEPT ![t] = 0]
  /\ out' = [out EXCEPT ![t] = <<>>]
  /\ sout' = [sout EXCEPT ![t] = EmptyDict]

\* the loaded count stored back as it was
CountStoreStale(d, k, c) == [d EXCEPT ![k] = c]

\* line 37: self._counts[key] += 1 stores the loaded count c plus one
CountStore(d, k, c) == [d EXCEPT ![k] = c + 1]

\* self._n[key] += 1 outside the test of the value: every call is a sample
TrackCountSample(t) ==
  /\ pc[t] = "t37"
  /\ counts' = CountStore(counts, key[t], tmp[t])
  /\ n' = [Touch(n, key[t], 0) EXCEPT ![key[t]] = @ + 1]
  /\ IF value[t] # None
     THEN /\ pc' = [pc EXCEPT ![t] = "t39"]
          /\ UNCHANGED <<lock, locals>>
     ELSE Release(t)
  /\ UNCHANGED <<countsKeys, sum, min, max, series, seriesKeys, now, calls, http>>

\* line 37, self._counts[key] += 1 stores; line 38: if value is not None,
\* else the with block ends and track returns
TrackCount(t) ==
  /\ pc[t] = "t37"
  /\ counts' = CountStore(counts, key[t], tmp[t])
  /\ IF value[t] # None
     THEN /\ pc' = [pc EXCEPT ![t] = "t39"]
          /\ UNCHANGED <<lock, locals>>
     ELSE Release(t)
  /\ UNCHANGED <<countsKeys, sum, n, min, max, series, seriesKeys, now, calls, http>>

\* line 39: self._sum[key] += value
SumAdd(d, k, v) == [Touch(d, k, 0) EXCEPT ![k] = FAdd(@, v)]

\* self._n[key] += 1 run twice
NIncTwice(d, k) == [Touch(d, k, 0) EXCEPT ![k] = @ + 2]

\* line 40: self._n[key] += 1
NInc(d, k) == [Touch(d, k, 0) EXCEPT ![k] = @ + 1]

\* self._min[key] = value without the test
MinAssign(d, k, v) == [Touch(d, k, Inf) EXCEPT ![k] = v]

\* line 41: if value < self._min[key]: self._min[key] = value
MinUpdate(d, k, v) ==
  LET m == Touch(d, k, Inf)
  IN IF FLt(v, m[k]) THEN [m EXCEPT ![k] = v] ELSE m

\* line 42: if value > self._max[key]: self._max[key] = value
MaxUpdate(d, k, v) ==
  LET m == Touch(d, k, NegInf)
  IN IF FLt(m[k], v) THEN [m EXCEPT ![k] = v] ELSE m

\* one deque shared by every key: the point lands in each of them
SeriesAppendShared(d, k, p) ==
  [x \in DOMAIN d \cup {k} |-> DequeAppend(Get(d, x, <<>>), p, SeriesMax)]

\* line 43: self._series[key].append((ts, value))
SeriesAppend(d, k, p) ==
  [Touch(d, k, <<>>) EXCEPT ![k] = DequeAppend(@, p, SeriesMax)]

\* lines 39-43 for a present value, the end of the with block and the return
TrackValue(t) ==
  /\ pc[t] = "t39"
  /\ sum' = SumAdd(sum, key[t], value[t][1])
  /\ n' = NInc(n, key[t])
  /\ min' = MinUpdate(min, key[t], value[t][1])
  /\ max' = MaxUpdate(max, key[t], value[t][1])
  /\ series' = SeriesAppend(series, key[t], <<ts[t], value[t][1]>>)
  /\ seriesKeys' = TouchOrder(seriesKeys, series, key[t])
  /\ Release(t)
  /\ UNCHANGED <<counts, countsKeys, now, calls, http>>

\* ------------------------------------------------------ MetricsStore.snapshot
\* the row with self._min[key] and self._max[key] as they are stored, the
\* sentinels not replaced by None
SnapshotRowSentinels(k) ==
  LET cnt == Get(n, k, 0)
  IN [ event |-> k[1], service |-> k[2], status |-> k[3],
       count |-> counts[k],
       samples |-> cnt,
       avg |-> IF cnt # 0 THEN FDiv(Get(sum, k, 0), cnt) ELSE None,
       min |-> Some(Get(min, k, Inf)),
       max |-> Some(Get(max, k, NegInf)) ]

\* lines 49-56: the row of one (event, service, status) of self._counts
SnapshotRow(k) ==
  LET cnt == Get(n, k, 0)
  IN [ event |-> k[1], service |-> k[2], status |-> k[3],
       count |-> counts[k],
       samples |-> cnt,
       avg |-> IF cnt # 0 THEN FDiv(Get(sum, k, 0), cnt) ELSE None,
       min |-> IF Get(min, k, Inf) # Inf THEN Some(Get(min, k, Inf)) ELSE None,
       max |-> IF Get(max, k, NegInf) # NegInf
               THEN Some(Get(max, k, NegInf)) ELSE None ]

\* the loop run over self._n.items(): the keys that have samples
SnapshotRowsOfN ==
  LET ks == SelectSeq(countsKeys, LAMBDA k : Get(n, k, 0) # 0)
  IN [i \in 1..Len(ks) |-> SnapshotRow(ks[i])]

\* lines 47-56: out after the loop over self._counts.items()
SnapshotRows == [i \in 1..Len(countsKeys) |-> SnapshotRow(countsKeys[i])]

\* line 45: snapshot is called, and is about to take the lock
SnapshotCall(t) ==
  /\ pc[t] = "idle"
  /\ pc' = [pc EXCEPT ![t] = "s_lock"]
  /\ UNCHANGED <<lock, store, now, locals, calls, http>>

\* lines 46-56: with self._lock, and the loop.  Reading self._n, self._sum,
\* self._min and self._max of a key inserts their defaults.  The call reads
\* nothing before the lock, so it is one step with the entry into the lock
\* unless a thread is shown waiting (s_lock).
SnapshotRun(t) ==
  /\ pc[t] \in {"idle", "s_lock"}
  /\ LockFree
  /\ lock' = t
  /\ out' = [out EXCEPT ![t] = SnapshotRows]
  /\ n' = TouchAll(n, DOMAIN counts, 0)
  /\ sum' = TouchAll(sum, {k \in DOMAIN counts : Get(n, k, 0) # 0}, 0)
  /\ min' = TouchAll(min, DOMAIN counts, Inf)
  /\ max' = TouchAll(max, DOMAIN counts, NegInf)
  /\ pc' = [pc EXCEPT ![t] = "s_ret"]
  /\ UNCHANGED <<counts, countsKeys, series, seriesKeys, now,
                 key, value, ts, tmp, cutoff, sout, calls, http>>

\* line 57: return out, leaving the with block
SnapshotReturn(t) ==
  /\ pc[t] = "s_ret"
  /\ Release(t)
  /\ UNCHANGED <<store, now, calls, http>>

Snapshot(t) ==
  \/ SnapshotRun(t)
  \/ SnapshotReturn(t)

\* -------------------------------------------------------- MetricsStore.series
\* the test ts > cutoff
InWindowStrict(p, c) == p[1] > c

\* line 64: the test ts >= cutoff of a point (ts, v)
InWindow(p, c) == p[1] >= c

\* lines 63-70: out after the loop has run from the i-th key of self._series
RECURSIVE SeriesLoop(_, _, _)
SeriesLoop(i, c, acc) ==
  IF i > Len(seriesKeys) THEN acc
  ELSE LET k == seriesKeys[i]
           points == SelectSeq(series[k], LAMBDA p : InWindow(p, c))
           entry == [service |-> k[2], status |-> k[3], points |-> points]
       IN SeriesLoop(i + 1, c,
            IF points # <<>>
            THEN [Touch(acc, k[1], <<>>) EXCEPT ![k[1]] = Append(@, entry)]
            ELSE acc)

\* line 60: cutoff = time.time() - self._series_window, before the lock
SeriesCall(t, D) ==
  /\ pc[t] = "idle"
  /\ tmp' = [tmp EXCEPT ![t] = now]
  /\ cutoff' = [cutoff EXCEPT ![t] = tmp'[t] - SeriesWindow]
  /\ \E d \in D : now' = Tick(d)
  /\ pc' = [pc EXCEPT ![t] = "r_lock"]
  /\ UNCHANGED <<lock, store, key, value, ts, out, sout, calls, http>>

\* a series that drops the points older than its cutoff from the deques as
\* it reads them
SeriesRunPruning(t) ==
  /\ pc[t] = "r_lock"
  /\ LockFree
  /\ lock' = t
  /\ sout' = [sout EXCEPT ![t] = SeriesLoop(1, cutoff[t], EmptyDict)]
  /\ series' = [k \in DOMAIN series |->
                  SelectSeq(series[k], LAMBDA p : InWindow(p, cutoff[t]))]
  /\ pc' = [pc EXCEPT ![t] = "r_ret"]
  /\ UNCHANGED <<counts, countsKeys, sum, n, min, max, seriesKeys, now,
                 key, value, ts, tmp, cutoff, out, calls, http>>

\* lines 61-70: with self._lock, and the loop
SeriesRun(t) ==
  /\ pc[t] = "r_lock"
  /\ LockFree
  /\ lock' = t
  /\ sout' = [sout EXCEPT ![t] = SeriesLoop(1, cutoff[t], EmptyDict)]
  /\ pc' = [pc EXCEPT ![t] = "r_ret"]
  /\ UNCHANGED <<store, now, key, value, ts, tmp, cutoff, out, calls, http>>

\* line 71: return out, leaving the with block
SeriesReturn(t) ==
  /\ pc[t] = "r_ret"
  /\ Release(t)
  /\ UNCHANGED <<store, now, calls, http>>

Series(t, D) ==
  \/ SeriesCall(t, D)
  \/ SeriesRun(t)
  \/ SeriesReturn(t)

\* ------------------------------------------------------------- POST /track
\* Strings that are stripped are sequences of characters, a character being
\* its code point: 97 is a, 32 the space, 10 the newline.
\* The characters str.strip() removes (those for which str.isspace() holds):
\* \t \n \x0b \x0c \r, \x1c-\x1f, the space, \x85, \xa0, U+1680,
\* U+2000-U+200A, U+2028, U+2029, U+202F, U+205F, U+3000
Whitespace ==
  (9..13) \cup (28..32) \cup {133, 160, 5760} \cup (8192..8202)
    \cup {8232, 8233, 8239, 8287, 12288}

\* str.strip(): the string without its leading and trailing whitespace
RECURSIVE Strip(_)
Strip(s) ==
  IF s = <<>> THEN s
  ELSE IF Head(s) \in Whitespace THEN Strip(Tail(s))
  ELSE IF s[Len(s)] \in Whitespace THEN Strip(SubSeq(s, 1, Len(s) - 1))
  ELSE s

\* the str of a sequence of characters, for the strings the requests carry
Str(s) ==
  CASE s = <<>> -> ""
    [] s = <<97>> -> "a"
    [] s = <<32, 97>> -> " a"
    [] s = <<32, 10>> -> " \n"

\* the event fields of the requests: an event, one to strip, an empty one and
\* one of whitespace only
RawEvents == { <<97>>, <<32, 97>>, <<>>, <<32, 10>> }

\* the bodies of the requests, as TrackPayload parses them
Payloads ==
  [ event : RawEvents, value : SharedValues,
    service : {None, Some("s")}, status : {None} ]

\* a validator that strips the event and returns it, empty or not
ValidateEventAny(v) == Some(Strip(v))

\* lines 97-103, validate_event: v = v.strip(); the event that is returned,
\* or None for the ValueError
ValidateEvent(v) == IF Strip(v) = <<>> THEN None ELSE Some(Strip(v))

\* the number of requests that have passed, or may still pass, the validator
Accepted ==
  TracksMade
    + Cardinality({t \in Threads : hpc[t] \in {"validate", "validated"}})

\* line 117: a POST /track arrives and its body is parsed
HttpReceive(t) ==
  /\ pc[t] = "idle"
  /\ hpc[t] = "none"
  /\ Accepted < MaxTracks
  /\ \E p \in Payloads : req' = [req EXCEPT ![t] = p]
  /\ hpc' = [hpc EXCEPT ![t] = "validate"]
  /\ UNCHANGED <<lock, store, now, pc, locals, calls, promCount, promObs>>

\* lines 97-103: the validator rejects the request (a 422 response, the
\* handler does not run)
HttpReject(t) ==
  /\ hpc[t] = "validate"
  /\ ValidateEvent(req[t].event) = None
  /\ req' = [req EXCEPT ![t] = NoReq]
  /\ hpc' = [hpc EXCEPT ![t] = "none"]
  /\ UNCHANGED <<lock, store, now, pc, locals, calls, promCount, promObs>>

\* lines 97-103: the validator returns the stripped event, which becomes
\* payload.event.  The payload is built in the event loop; the handler runs
\* later, in a worker thread.
HttpAccept(t) ==
  /\ hpc[t] = "validate"
  /\ ValidateEvent(req[t].event) # None
  /\ req' = [req EXCEPT ![t].event = ValidateEvent(@)[1]]
  /\ hpc' = [hpc EXCEPT ![t] = "validated"]
  /\ UNCHANGED <<lock, store, now, pc, locals, calls, promCount, promObs>>

\* lines 118-119 and 33-35: the handler runs and calls STORE.track, which
\* reads the clock.  D: by how much the clock may go on before it is read
\* again.
HttpCall(t, D) ==
  /\ hpc[t] = "validated"
  /\ pc[t] = "idle"
  /\ hpc' = [hpc EXCEPT ![t] = "track"]
  /\ ts' = [ts EXCEPT ![t] = now]
  /\ \E d \in D : now' = Tick(d)
  /\ pc' = [pc EXCEPT ![t] = "t_lock"]
  /\ UNCHANGED <<lock, store, key, value, tmp, cutoff, out, sout, calls,
                 req, promCount, promObs>>

\* line 119: STORE.track(payload.event, payload.value, payload.service,
\* payload.status) runs: it enters the lock with the fields of the payload
HttpTrackEnter(t) ==
  /\ hpc[t] = "track"
  /\ TrackEnter(t, {<<Str(req[t].event), req[t].service, req[t].status>>},
                {req[t].value})

\* line 119: STORE.track stores the count
HttpTrackCount(t) == hpc[t] = "track" /\ TrackCount(t)

\* line 119: STORE.track records the value and returns
HttpTrackValue(t) == hpc[t] = "track" /\ TrackValue(t)

\* the label values of EVENT_COUNT and EVENT_LATENCY with the labels passed
\* as they are, None as the text None
PromKeyStr(event, service, status) ==
  <<event, OrEmptyStr(service), OrEmptyStr(status)>>

\* lines 120 and 122: labels(event=payload.event, service=payload.service or
\* "", status=payload.status or "")
PromKey(event, service, status) ==
  <<event, OrEmpty(service), OrEmpty(status)>>

\* Counter.inc(), Histogram.observe(): one more for the label values k
PromInc(d, k) == [Touch(d, k, 0) EXCEPT ![k] = @ + 1]

\* line 120: EVENT_COUNT.labels(...).inc() once STORE.track has returned;
\* line 121: if payload.value is not None, else line 123: return
HttpCount(t) ==
  /\ hpc[t] = "track"
  /\ pc[t] = "idle"
  /\ promCount' =
       PromInc(promCount,
               PromKey(Str(req[t].event), req[t].service, req[t].status))
  /\ IF req[t].value # None
     THEN /\ hpc' = [hpc EXCEPT ![t] = "observe"]
          /\ req' = req
     ELSE /\ hpc' = [hpc EXCEPT ![t] = "none"]
          /\ req' = [req EXCEPT ![t] = NoReq]
  /\ UNCHANGED <<lock, store, now, pc, locals, calls, promObs>>

\* line 122: EVENT_LATENCY.labels(...).observe(payload.value); line 123
HttpObserve(t) ==
  /\ hpc[t] = "observe"
  /\ promObs' =
       PromInc(promObs,
               PromKey(Str(req[t].event), req[t].service, req[t].status))
  /\ hpc' = [hpc EXCEPT ![t] = "none"]
  /\ req' = [req EXCEPT ![t] = NoReq]
  /\ UNCHANGED <<lock, store, now, pc, locals, calls, promCount>>

\* lines 117-123: the handler of POST /track
HttpTrack(t, D) ==
  \/ HttpReceive(t)
  \/ HttpReject(t)
  \/ HttpAccept(t)
  \/ HttpCall(t, D)
  \/ HttpTrackEnter(t)
  \/ HttpTrackCount(t)
  \/ HttpTrackValue(t)
  \/ HttpCount(t)
  \/ HttpObserve(t)

\* ------------------------------------------------------------ specifications
Track(t, A, V, D) ==
  \/ TrackCall(t, D)
  \/ TrackEnter(t, A, V)
  \/ TrackCount(t)
  \/ TrackValue(t)

\* a worker thread runs one call of the store after the other
Worker(t, A, V, DT, DS) ==
  \/ Track(t, A, V, DT)
  \/ Snapshot(t)
  \/ Series(t, DS)

\* the worker threads share the store and track two keys; the clock goes on
\* by one between two track calls
Next == \E t \in Threads : Worker(t, SharedArgs, SharedValues, {1}, {0})

Spec == Init /\ [][Next]_vars

\* one thread tracks every key
NextSeq == Worker(1, TrackArgs, Values, {1}, {0})

SpecSeq == Init /\ [][NextSeq]_vars

\* one thread tracks two keys and reads the series; the clock may go on also
\* after a series call has read it
NextAging == Worker(1, SharedArgs, SharedValues, {1}, {0, 1})

SpecAging == Init /\ [][NextAging]_vars

\* the value arguments of a caller that also passes the floats inf and -inf
InfValues == {None, Some(1), Some(Inf), Some(NegInf)}

\* one thread tracks one key with finite and infinite values
NextInf == Worker(1, {<<"a", None, None>>}, InfValues, {1}, {0})

SpecInf == Init /\ [][NextInf]_vars

\* the threads under a fair scheduler: a thread that can run gets to run.
\* A thread inside a with block is not waiting for anything, and runs on; a
\* thread in Lock.acquire takes the lock if the lock stays free (weak
\* fairness of both).  threading.Lock keeps no order among the threads that
\* wait for it, so nothing says that a thread that waits gets the lock when
\* other threads take it again and again: there is no strong fairness of the
\* entries.  No thread has to start a call.  The threads track one key, and
\* the clock stands: neither decides whether a call goes on.
FairArgs == { <<"a", None, None>> }

RunsOn(t) ==
  TrackCount(t) \/ TrackValue(t) \/ SnapshotReturn(t) \/ SeriesReturn(t)

\* a snapshot call that waits for the lock takes it
SnapshotEnter(t) == pc[t] = "s_lock" /\ SnapshotRun(t)

Acquires(t) ==
  TrackEnter(t, FairArgs, SharedValues) \/ SnapshotEnter(t) \/ SeriesRun(t)

\* a worker thread whose snapshot calls wait for the lock as its track and
\* series calls do
WorkerFair(t) ==
  \/ Track(t, FairArgs, SharedValues, {0})
  \/ SnapshotCall(t)
  \/ SnapshotEnter(t)
  \/ SnapshotReturn(t)
  \/ Series(t, {0})

NextFair == \E t \in Threads : WorkerFair(t)

SpecFair ==
  /\ Init
  /\ [][NextFair]_vars
  /\ \A t \in Threads : WF_vars(RunsOn(t)) /\ WF_vars(Acquires(t))

\* the worker threads handle POST /track requests; the clock stands, the
\* timestamps deciding nothing about the counts and the metrics
NextHttp == \E t \in Threads : HttpTrack(t, {0})

SpecHttp == Init /\ [][NextHttp]_vars

\* ============================================================== properties
\* What the history says, computed without the store.

\* the floats of the calls of a history that carried a value, in order
ValuesOf(h) ==
  LET valued == SelectSeq(h, LAMBDA c : c[2] # None)
  IN [i \in 1..Len(valued) |-> valued[i][2][1]]

\* the (ts, value) points of the calls of a history that carried a value
PointsOf(h) ==
  LET valued == SelectSeq(h, LAMBDA c : c[2] # None)
  IN [i \in 1..Len(valued) |-> <<valued[i][1], valued[i][2][1]>>]

RECURSIVE SeqSum(_)
SeqSum(s) == IF s = <<>> THEN 0 ELSE Head(s) + SeqSum(Tail(s))

Range(s) == {s[i] : i \in 1..Len(s)}

Smallest(s) == CHOOSE x \in Range(s) : \A y \in Range(s) : x <= y

Largest(s) == CHOOSE x \in Range(s) : \A y \in Range(s) : x >= y

\* the last m elements of a sequence
LastN(s, m) == IF Len(s) <= m THEN s ELSE SubSeq(s, Len(s) - m + 1, Len(s))

RowKey(r) == <<r.event, r.service, r.status>>

\* no thread is inside the body of track
NoTrackRunning == \A t \in Threads : pc[t] \notin {"t37", "t39"}

\* the row r is the one of a key whose track calls so far are h
RowMatches(r, h) ==
  LET vals == ValuesOf(h)
  IN /\ r.count = Len(h)
     /\ r.samples = Len(vals)
     /\ IF vals = <<>>
        THEN r.avg = None /\ r.min = None /\ r.max = None
        ELSE /\ Len(r.avg) = 2
             /\ r.avg[2] > 0
             /\ r.avg[1] * Len(vals) = SeqSum(vals) * r.avg[2]
             /\ r.min = Some(Smallest(vals))
             /\ r.max = Some(Largest(vals))

\* C1: no update is lost.  Whenever no thread is inside track, every key's
\* count is the number of track calls made for it by all threads, and its
\* number of samples is the number of those calls that carried a value.
C1_NoLostUpdate ==
  NoTrackRunning =>
    \A k \in Keys :
      /\ Get(counts, k, 0) = Len(calls[k])
      /\ Get(n, k, 0) = Len(ValuesOf(calls[k]))

\* C1 witness: MaxTracks calls for one key have all completed, and two of
\* them came from different threads that raced for the lock (the one that
\* read the clock first entered second).
C1_Witness ==
  /\ \A t \in Threads : pc[t] = "idle"
  /\ \E k \in Keys :
       /\ Len(calls[k]) = MaxTracks
       /\ counts[k] = MaxTracks
       /\ \E i \in 1..(MaxTracks - 1) : calls[k][i][1] > calls[k][i + 1][1]

\* C3: every row a snapshot returns is the row of its key after a whole
\* number of that key's track calls: count, samples, avg, min and max all
\* belong to one state of the accumulator.
C3_RowsConsistent ==
  \A t \in Threads :
    pc[t] = "s_ret" =>
      \A i \in 1..Len(out[t]) :
        LET h == calls[RowKey(out[t][i])]
        IN \E j \in 0..Len(h) : RowMatches(out[t][i], SubSeq(h, 1, j))

\* C3 witness: a snapshot has returned a row with samples while another
\* thread is in a track call, waiting for the lock.
C3_Witness ==
  \E t, u \in Threads :
    /\ pc[t] = "s_ret"
    /\ pc[u] = "t_lock"
    /\ \E i \in 1..Len(out[t]) : out[t][i].count >= 2 /\ out[t][i].samples >= 1

\* C4: in every reachable state the points of each key's series are in
\* non-decreasing timestamp order.
C4_SeriesChronological ==
  \A k \in DOMAIN series :
    \A i \in 1..(Len(series[k]) - 1) : series[k][i][1] <= series[k][i + 1][1]

\* C2: the count a snapshot reports for a key is exactly the number of track
\* calls made for that key, and its samples exactly the number of those calls
\* whose value was not None.
C2_CountsExact ==
  \A t \in Threads :
    pc[t] = "s_ret" =>
      \A k \in Keys :
        calls[k] # <<>> =>
          \E i \in 1..Len(out[t]) :
            /\ RowKey(out[t][i]) = k
            /\ out[t][i].count = Len(calls[k])
            /\ out[t][i].samples = Len(ValuesOf(calls[k]))

\* C2 witness: a snapshot reports a key tracked three times, once without
\* a value.
C2_Witness ==
  \E t \in Threads :
    /\ pc[t] = "s_ret"
    /\ \E i \in 1..Len(out[t]) : out[t][i].count = 3 /\ out[t][i].samples = 2

\* C5: a key's series never holds more than SeriesMax points, and once its
\* track calls have completed it holds the points of the most recent
\* min(k, SeriesMax) of its k calls that carried a value, in the order they
\* were appended.
C5_SeriesBounded ==
  \A k \in Keys :
    /\ Len(Get(series, k, <<>>)) <= SeriesMax
    /\ NoTrackRunning =>
         Get(series, k, <<>>) = LastN(PointsOf(calls[k]), SeriesMax)

\* C5 witness: a key has had more valued track calls than the series can
\* hold, so the oldest point has been evicted.
C5_Witness ==
  /\ NoTrackRunning
  /\ \E k \in DOMAIN series :
       /\ Len(PointsOf(calls[k])) > SeriesMax
       /\ Len(series[k]) = SeriesMax
       /\ series[k][1] = PointsOf(calls[k])[Len(PointsOf(calls[k])) - SeriesMax + 1]

\* the entries of key k in the result d of series
EntriesOf(d, k) ==
  IF k[1] \in DOMAIN d
  THEN {i \in 1..Len(d[k[1]]) : d[k[1]][i].service = k[2] /\ d[k[1]][i].status = k[3]}
  ELSE {}

\* C6: series, having read the clock at time tmp, returns for each key
\* exactly the stored points with ts >= tmp - SeriesWindow, in stored order;
\* a key has one entry, under its event, if it has such a point and no entry
\* otherwise; no entry has an empty list of points.
C6_WindowExact ==
  \A t \in Threads :
    pc[t] = "r_ret" =>
      /\ \A k \in Keys :
           LET stored == Get(series, k, <<>>)
               inside == SelectSeq(stored, LAMBDA p : p[1] >= tmp[t] - SeriesWindow)
               found == EntriesOf(sout[t], k)
           IN IF inside = <<>>
              THEN found = {}
              ELSE /\ Cardinality(found) = 1
                   /\ \A i \in found : sout[t][k[1]][i].points = inside
      /\ \A e \in DOMAIN sout[t] :
           /\ sout[t][e] # <<>>
           /\ \A i \in 1..Len(sout[t][e]) :
                /\ sout[t][e][i].points # <<>>
                /\ <<e, sout[t][e][i].service, sout[t][e][i].status>> \in Keys

\* C6 witness: series returns a key with a point on the boundary
\* (ts = now - window) and drops an older point of it, and omits another key
\* whose points are all too old.
C6_Witness ==
  \E t \in Threads :
    /\ pc[t] = "r_ret"
    /\ \E k \in DOMAIN series :
         /\ \E i \in 1..Len(series[k]) : series[k][i][1] < tmp[t] - SeriesWindow
         /\ \E i \in 1..Len(series[k]) : series[k][i][1] = tmp[t] - SeriesWindow
         /\ EntriesOf(sout[t], k) # {}
    /\ \E k \in DOMAIN series :
         /\ series[k] # <<>>
         /\ EntriesOf(sout[t], k) = {}

\* what the store holds for key k: <<>> for a dict that has no such key
Held(d, k) == IF k \in DOMAIN d THEN <<d[k]>> ELSE <<>>

\* the thread t takes a step of a track call
TrackStep(t) == pc[t] \in {"t_lock", "t37", "t39"} /\ pc'[t] # pc[t]

\* C7: a step of a track call for key k leaves count, samples, sum, min, max
\* and series of every other key exactly as they were.
C7_OtherKeysUnchanged ==
  [][\A t \in Threads :
       TrackStep(t) =>
         LET k == IF pc[t] = "t_lock" THEN key'[t] ELSE key[t]
         IN \A o \in Keys \ {k} :
              /\ Held(counts', o) = Held(counts, o)
              /\ Held(n', o) = Held(n, o)
              /\ Held(sum', o) = Held(sum, o)
              /\ Held(min', o) = Held(min, o)
              /\ Held(max', o) = Held(max, o)
              /\ Held(series', o) = Held(series, o)]_vars

\* the keys k and o differ in their i-th component only
DifferOnlyIn(k, o, i) == k[i] # o[i] /\ \A j \in (1..3) \ {i} : k[j] = o[j]

\* C7 witness: three keys hold samples and a series, two of them differing
\* in one component only, after the last of them was tracked.
C7_Witness ==
  /\ \A t \in Threads : pc[t] = "idle"
  /\ \E k, o, q \in DOMAIN series :
       /\ Cardinality({k, o, q}) = 3
       /\ \E i \in 1..3 : DifferOnlyIn(k, o, i)
       /\ \E i \in 1..3 : DifferOnlyIn(k, q, i) \/ DifferOnlyIn(o, q, i)
       /\ seriesKeys[3] = q

\* C8: a snapshot returns one row, and only one, for each key that was ever
\* tracked, with or without a value, and no row for any other key.
C8_OneRowPerKey ==
  \A t \in Threads :
    pc[t] = "s_ret" =>
      /\ {RowKey(out[t][i]) : i \in 1..Len(out[t])}
           = {k \in Keys : calls[k] # <<>>}
      /\ \A i, j \in 1..Len(out[t]) :
           RowKey(out[t][i]) = RowKey(out[t][j]) => i = j

\* C8 witness: a snapshot returns several rows, one of them of a key that
\* was only ever tracked without a value, another of a key tracked twice.
C8_Witness ==
  \E t \in Threads :
    /\ pc[t] = "s_ret"
    /\ \E i, j \in 1..Len(out[t]) :
         /\ i # j
         /\ out[t][i].samples = 0
         /\ out[t][i].count >= 1
         /\ out[t][j].count >= 2

\* C9: in every state and for every key, samples <= count, min <= max when
\* both are set, and the avg of the key's row is non-null exactly when it has
\* samples.
C9_StatsInvariant ==
  \A k \in DOMAIN counts :
    /\ Get(n, k, 0) <= counts[k]
    /\ (SnapshotRow(k).min # None /\ SnapshotRow(k).max # None)
         => SnapshotRow(k).min[1] <= SnapshotRow(k).max[1]
    /\ (SnapshotRow(k).avg # None) <=> (SnapshotRow(k).samples > 0)

\* C9 witness: a key has fewer samples than calls, and min below max.
C9_Witness ==
  \E k \in DOMAIN counts :
    /\ Get(n, k, 0) > 0
    /\ Get(n, k, 0) < counts[k]
    /\ min[k] < max[k]
    /\ SnapshotRow(k).avg # None

\* C10: for a key tracked with values, a snapshot reports the smallest of
\* them as min, the largest as max, their number as samples, and their sum
\* divided by their number as avg.
C10_MinMaxAvg ==
  \A t \in Threads :
    pc[t] = "s_ret" =>
      \A i \in 1..Len(out[t]) :
        LET r == out[t][i]
            vals == ValuesOf(calls[RowKey(r)])
        IN vals # <<>> =>
             /\ r.min = Some(Smallest(vals))
             /\ r.max = Some(Largest(vals))
             /\ r.samples = Len(vals)
             /\ Len(r.avg) = 2
             /\ r.avg[2] > 0
             /\ r.avg[1] * Len(vals) = SeqSum(vals) * r.avg[2]

\* C10 witness: a snapshot reports a key tracked with three values, not in
\* order and with a repeat, the smallest of them not the last, whose avg is
\* not a whole number.
C10_Witness ==
  \E t \in Threads :
    /\ pc[t] = "s_ret"
    /\ \E i \in 1..Len(out[t]) :
         LET vals == ValuesOf(calls[RowKey(out[t][i])])
         IN /\ Len(vals) = 3
            /\ vals[1] < vals[2]
            /\ vals[3] = vals[2]
            /\ out[t][i].avg[2] # 1


\* C11: a key whose every track call had an absent value is reported by
\* snapshot with avg, min and max null, samples 0, and count the number of
\* those calls.
C11_NoValueRow ==
  \A t \in Threads :
    pc[t] = "s_ret" =>
      \A i \in 1..Len(out[t]) :
        LET r == out[t][i]
            h == calls[RowKey(r)]
        IN ValuesOf(h) = <<>> =>
             /\ r.avg = None
             /\ r.min = None
             /\ r.max = None
             /\ r.samples = 0
             /\ r.count = Len(h)

\* a snapshot returns the row of a key tracked twice, never with a value,
\* next to the row of a key that has a value
C11_Witness ==
  \E t \in Threads :
    /\ pc[t] = "s_ret"
    /\ \E i, j \in 1..Len(out[t]) :
         /\ out[t][i].count = 2
         /\ ValuesOf(calls[RowKey(out[t][i])]) = <<>>
         /\ out[t][i].min = None
         /\ out[t][j].samples = 1

\* a step of a snapshot call of thread t: its loop under the lock, its return
SnapshotStep(t) ==
  \/ pc[t] = "idle" /\ pc'[t] = "s_ret"
  \/ pc[t] = "s_ret" /\ pc'[t] = "idle"

\* the cutoffs a series call can compute
Cutoffs == (0 - SeriesWindow)..MaxTime

\* C12: snapshot changes nothing that a later snapshot or series observes:
\* the rows a snapshot would return and, for every cutoff, the result series
\* would return are the same after a step of a snapshot call as before it (the
\* defaults its reads insert do not show), and the rows it returns are the
\* rows the next snapshot returns.  So two snapshot calls with no track call
\* in between return identical results.
C12_SnapshotIdempotent ==
  [][\A t \in Threads :
       SnapshotStep(t) =>
         /\ SnapshotRows' = SnapshotRows
         /\ pc'[t] = "s_ret" => out'[t] = SnapshotRows'
         /\ \A c \in Cutoffs :
              SeriesLoop(1, c, EmptyDict)' = SeriesLoop(1, c, EmptyDict)
         /\ <<counts, countsKeys, series, seriesKeys>>' =
              <<counts, countsKeys, series, seriesKeys>>]_vars

\* a snapshot has run over a key that has no value: its reads have inserted
\* the defaults into _n, _min and _max, and the row shows none of them
C12_Witness ==
  \E t \in Threads :
    /\ pc[t] = "s_ret"
    /\ \E i \in 1..Len(out[t]) :
         LET k == RowKey(out[t][i]) IN
         /\ k \in DOMAIN min /\ min[k] = Inf
         /\ k \in DOMAIN max /\ max[k] = NegInf
         /\ k \in DOMAIN n /\ n[k] = 0
         /\ k \notin DOMAIN sum
         /\ out[t][i].min = None
         /\ series # EmptyDict

\* a step of a series call of thread t: the clock read, the loop under the
\* lock, the return
SeriesStep(t) ==
  \/ pc[t] = "idle" /\ pc'[t] = "r_lock"
  \/ pc[t] = "r_lock" /\ pc'[t] = "r_ret"
  \/ pc[t] = "r_ret" /\ pc'[t] = "idle"

\* C13, as the claim states it: two series calls with no track call in
\* between return identical results.  When a series call is about to return
\* its result, the call made next reads the clock as it stands now, and would
\* return the loop's result for the cutoff now - window.
C13_SeriesRepeatable ==
  \A t \in Threads :
    pc[t] = "r_ret" => sout[t] = SeriesLoop(1, now - SeriesWindow, EmptyDict)

\* C13, amended: series changes nothing in the store, so for one and the same
\* cutoff two series calls with no track call in between return identical
\* results (and a snapshot sees no difference); the result returned is the
\* loop's result for the cutoff the call computed from its own clock read.
C13_SeriesReadOnly ==
  [][\A t \in Threads :
       SeriesStep(t) =>
         /\ \A c \in Cutoffs :
              SeriesLoop(1, c, EmptyDict)' = SeriesLoop(1, c, EmptyDict)
         /\ store' = store
         /\ pc'[t] = "r_ret" =>
              sout'[t] = SeriesLoop(1, cutoff[t], EmptyDict)']_vars

\* a series call returns a result that leaves out a stored point that is
\* older than its cutoff and holds a younger one, and the clock has gone on
\* since the call read it
C13_Witness ==
  \E t \in Threads :
    /\ pc[t] = "r_ret"
    /\ now > cutoff[t] + SeriesWindow
    /\ \E k \in DOMAIN series :
         /\ \E i \in 1..Len(series[k]) : ~InWindow(series[k][i], cutoff[t])
         /\ \E i \in 1..Len(series[k]) : InWindow(series[k][i], cutoff[t])
         /\ k[1] \in DOMAIN sout[t]

\* thread t is in the body of track: it has entered the lock, not returned
InTrackBody(t) == pc[t] \in {"t37", "t39"}

\* the number of track calls for key k that have returned
Returned(k) ==
  Len(calls[k]) - Cardinality({t \in Threads : InTrackBody(t) /\ key[t] = k})

\* the number of track calls for key k with a value that have returned
ReturnedValued(k) ==
  Len(ValuesOf(calls[k]))
    - Cardinality({t \in Threads :
                     InTrackBody(t) /\ key[t] = k /\ value[t] # None})

\* C14: a snapshot that starts after a track call for key k has returned
\* reflects that call, whatever the other threads do: when a snapshot runs
\* its loop, its result has a row for every key with a returned track call,
\* whose count is at least the number of those calls and whose samples is at
\* least the number of them that had a value.  (The calls that have returned
\* when the loop runs include those that had returned when snapshot was
\* called.)
C14_SnapshotSeesReturned ==
  [][\A t \in Threads :
       (pc[t] = "idle" /\ pc'[t] = "s_ret") =>
         \A k \in Keys :
           Returned(k) > 0 =>
             \E i \in 1..Len(out'[t]) :
               /\ RowKey(out'[t][i]) = k
               /\ out'[t][i].count >= Returned(k)
               /\ out'[t][i].samples >= ReturnedValued(k)]_vars

\* a snapshot returns the rows of two keys whose track calls have returned,
\* one of them with a value, while another thread has a track call under way
C14_Witness ==
  \E t, u \in Threads :
    /\ pc[t] = "s_ret"
    /\ pc[u] = "t_lock"
    /\ Len(out[t]) = 2
    /\ \A i \in 1..Len(out[t]) :
         /\ Returned(RowKey(out[t][i])) = 1
         /\ out[t][i].count = 1
    /\ \E i \in 1..Len(out[t]) : out[t][i].samples = 1

\* the thread t takes a step of a track call whose value is absent that can
\* touch the store: the entry into the lock, the store of the count
AbsentValueStep(t) ==
  \/ pc[t] = "t_lock" /\ pc'[t] = "t37" /\ value'[t] = None
  \/ pc[t] = "t37" /\ pc'[t] # "t37" /\ value[t] = None

\* C17: a track call with an absent value changes only the count of its key
\* (which it creates if the key is new): samples, sum, min and max of every
\* key stay as they were and no series gets a point or a key; the count of
\* the key goes up by one, from 0 if the key is new.
C17_AbsentValueOnlyCount ==
  [][\A t \in Threads :
       AbsentValueStep(t) =>
         LET k == key'[t] IN
         /\ <<sum, n, min, max, series, seriesKeys>>' =
              <<sum, n, min, max, series, seriesKeys>>
         /\ pc[t] = "t_lock" =>
              /\ Held(counts', k) = (IF k \in DOMAIN counts
                                     THEN <<counts[k]>> ELSE <<0>>)
              /\ calls'[k][Len(calls'[k])][2] = None
         /\ pc[t] = "t37" =>
              /\ pc'[t] = "idle"
              /\ counts'[key[t]] = counts[key[t]] + 1
              /\ DOMAIN counts' = DOMAIN counts]_vars

\* a track call without a value has returned for a key that had a value
\* before: the count is 2 and there is one sample and one point
C17_Witness ==
  /\ \A t \in Threads : pc[t] = "idle"
  /\ \E k \in DOMAIN counts :
       /\ Len(calls[k]) = 2
       /\ calls[k][2][2] = None
       /\ calls[k][1][2] # None
       /\ counts[k] = 2
       /\ n[k] = 1
       /\ Len(series[k]) = 1

\* the key of the arguments a = <<event, service, status>> as the
\* specification defines it: an absent service or status is the empty string
NormalKey(a) ==
  << a[1],
     IF a[2] = None THEN "" ELSE a[2][1],
     IF a[3] = None THEN "" ELSE a[3][1] >>

\* the service and status strings the callers pass, and the empty string
LabelStrings ==
  {""} \cup {a[2][1] : a \in {b \in TrackArgs : b[2] # None}}
       \cup {a[3][1] : a \in {b \in TrackArgs : b[3] # None}}

\* C18: an absent service or status becomes "" before the key is built: every
\* call is counted under the key NormalKey of its arguments, so a call with
\* an absent service and a call with service "" (same event and status)
\* update the same key; every component of every key the store holds is a
\* string, none is null; and a snapshot has exactly one row for the key of
\* any call made.
C18_AbsentIsEmpty ==
  /\ \A k \in Keys :
       \A i \in 1..Len(calls[k]) : k = NormalKey(calls[k][i][3])
  /\ \A k \in DOMAIN counts \cup DOMAIN sum \cup DOMAIN n \cup DOMAIN min
               \cup DOMAIN max \cup DOMAIN series :
       k[2] \in LabelStrings /\ k[3] \in LabelStrings
  /\ \A t \in Threads :
       pc[t] = "s_ret" =>
         \A k \in Keys :
           \A c \in Range(calls[k]) :
             Cardinality({i \in 1..Len(out[t]) :
                            RowKey(out[t][i]) = NormalKey(c[3])}) = 1

\* a snapshot returns one row with count 2 for a key tracked once with an
\* absent service and once with the service ""
C18_Witness ==
  \E t \in Threads :
    /\ pc[t] = "s_ret"
    /\ \E i \in 1..Len(out[t]) :
         LET h == calls[RowKey(out[t][i])] IN
         /\ out[t][i].count = 2
         /\ out[t][i].service = ""
         /\ Len(h) = 2
         /\ {h[1][3][2], h[2][3][2]} = {None, Some("")}

\* C20: in every row of every snapshot min is null exactly when samples is 0,
\* and so is max; once a value has been tracked for the key, also one equal
\* to inf or -inf, min and max are the smallest and the largest value
\* tracked.
C20_MinMaxSet ==
  \A t \in Threads :
    pc[t] = "s_ret" =>
      \A i \in 1..Len(out[t]) :
        LET r == out[t][i]
            vals == ValuesOf(calls[RowKey(r)])
        IN /\ (r.min = None) <=> (r.samples = 0)
           /\ (r.max = None) <=> (r.samples = 0)
           /\ vals # <<>> =>
                /\ r.min = Some(Smallest(vals))
                /\ r.max = Some(Largest(vals))

\* thread t is inside a with self._lock block
InLock(t) == pc[t] \in {"t37", "t39", "s_ret", "r_ret"}

\* thread t has called track, snapshot or series and waits for the lock
Waiting(t) == pc[t] \in {"t_lock", "s_lock", "r_lock"}

\* C19, as the claim states it: under fair scheduling every track, snapshot
\* and series call that has started completes; the lock is held by exactly
\* the thread that is inside a with block, and a held lock is released; so
\* no thread waits for the lock forever.
C19_CallsComplete ==
  /\ [](\A t \in Threads : InLock(t) <=> lock = t)
  /\ \A t \in Threads : (pc[t] # "idle") ~> (pc[t] = "idle")
  /\ \A t \in Threads : (lock = t) ~> (lock = 0)

\* C19, amended: the lock is held by exactly the thread that is inside a with
\* block; a call that has the lock completes, and the lock it holds is
\* released; and whenever calls wait for the lock, one of the calls gets it
\* (the threads never all wait forever).  A single waiting call can be passed
\* over again and again by the calls of other threads.
C19_LockProgress ==
  /\ [](\A t \in Threads : InLock(t) <=> lock = t)
  /\ \A t \in Threads : InLock(t) ~> (pc[t] = "idle")
  /\ \A t \in Threads : (lock = t) ~> (lock = 0)
  /\ (\E t \in Threads : Waiting(t)) ~> (\E t \in Threads : InLock(t))

\* a thread waits for the lock in a snapshot call while another thread is
\* inside its second track call and holds it
C19_Witness ==
  \E t, w \in Threads :
    /\ pc[t] = "s_lock"
    /\ pc[w] = "t39"
    /\ lock = w
    /\ \E k \in Keys : Len(calls[k]) = 2

\* the string s is empty or holds whitespace only
Blank(s) == \A i \in 1..Len(s) : s[i] \in Whitespace

\* the strs of the event fields that are empty or whitespace only
BlankStrs == {Str(s) : s \in {r \in RawEvents : Blank(r)}}

\* C15: a POST /track whose event is empty or whitespace only is rejected
\* before the store is touched: the step that ends its validation ends the
\* request and leaves the store's keys, counts, stats and series and the
\* Prometheus counter and histogram as they were; no request with such an
\* event is ever past the validator, and no key of the store or label of the
\* metrics has such an event.
C15_BlankEventRejected ==
  /\ [](\A t \in Threads : hpc[t] \in {"validated", "track", "observe"} =>
                             ~Blank(req[t].event))
  /\ [](\A k \in DOMAIN counts \cup DOMAIN n \cup DOMAIN series
                  \cup DOMAIN promCount \cup DOMAIN promObs :
          k[1] \notin BlankStrs)
  /\ [][\A t \in Threads :
          (hpc[t] = "validate" /\ Blank(req[t].event)
             /\ hpc'[t] # "validate") =>
            /\ hpc'[t] = "none"
            /\ pc'[t] = "idle"
            /\ <<lock, store, calls, promCount, promObs>>' =
                 <<lock, store, calls, promCount, promObs>>]_vars

\* a request whose event is whitespace only is at the validator, and another
\* whose event is empty, while the store and the metrics hold a key
C15_Witness ==
  \E t, u \in Threads :
    /\ hpc[t] = "validate" /\ req[t].event = <<32, 10>>
    /\ hpc[u] = "validate" /\ req[u].event = <<>>
    /\ counts # EmptyDict
    /\ promCount # EmptyDict

\* the key of the request thread t handles, as the specification defines it
ReqKey(t) == NormalKey(<<Str(req[t].event), req[t].service, req[t].status>>)

\* the handler of thread t is between the store of the count at line 37 and
\* the inc() of line 120
CountAhead(t) == hpc[t] = "track" /\ pc[t] \in {"t39", "idle"}

\* the handler of thread t, whose request has a value, is between the
\* self._n[key] += 1 of line 40 and the observe() of line 122
SampleAhead(t) ==
  /\ hpc[t] = "observe" \/ (hpc[t] = "track" /\ pc[t] = "idle")
  /\ req[t].value # None

\* C16: the Prometheus metrics go in lockstep with the store: every accepted
\* request increments mc_events_total once, for the key STORE.track counts it
\* under, and observes the histogram exactly when it has a value.  For every
\* key the store's count is the counter plus the requests whose handler has
\* stored the count and not yet incremented the counter, and likewise the
\* samples and the observations; so whenever no request is being handled,
\* counter = count and observations = samples for every key.
C16_PrometheusLockstep ==
  \A k \in Keys \cup DOMAIN counts \cup DOMAIN promCount \cup DOMAIN promObs :
    /\ Get(counts, k, 0) =
         Get(promCount, k, 0)
           + Cardinality({t \in Threads : CountAhead(t) /\ ReqKey(t) = k})
    /\ Get(n, k, 0) =
         Get(promObs, k, 0)
           + Cardinality({t \in Threads : SampleAhead(t) /\ ReqKey(t) = k})
    /\ (\A t \in Threads : hpc[t] = "none") =>
         /\ Get(promCount, k, 0) = Get(counts, k, 0)
         /\ Get(promObs, k, 0) = Get(n, k, 0)

\* no request is being handled; one key has two requests counted and one
\* observed, another key has one request counted and none observed
C16_Witness ==
  /\ \A t \in Threads : hpc[t] = "none"
  /\ \E k, o \in DOMAIN promCount :
       /\ promCount[k] = 2 /\ counts[k] = 2
       /\ k \in DOMAIN promObs /\ promObs[k] = 1 /\ n[k] = 1
       /\ promCount[o] = 1 /\ counts[o] = 1
       /\ o \notin DOMAIN promObs
====
